---- MODULE Spec2Model ----
(***************************************************************************)
(* BFSK alpha-modulation link: transmitter_bfsk_alpha.py (transmit loop    *)
(* and modulator) and receiver_bfsk_decode.py (normalisation, per-bit FFT  *)
(* classification, BER / data-rate scoring).                               *)
(*                                                                         *)
(* Number representation.  The programs compute in floating point; the     *)
(* model computes in fixed point with FX units per 1.0.  A float that may  *)
(* be NaN is a record [nan, v].  Times are milliseconds or exact fractions *)
(* of a second, frequencies are whole Hz, angles are fractions p/q of a    *)
(* turn.                                                                   *)
(***************************************************************************)
EXTENDS Integers, Sequences, FiniteSets, TLC

\* ------------------------------------------------------------------------
\* Bounds of the model
\* ------------------------------------------------------------------------
MaxFrames == 8
MaxBits == 2

\* ------------------------------------------------------------------------
\* Fixed-point arithmetic
\* ------------------------------------------------------------------------
FX == 10 * 100
Turn == 4 * 12
Abs(x) == IF x < 0 THEN -x ELSE x

Min(a, b) == IF a <= b THEN a ELSE b

Max(a, b) == IF a >= b THEN a ELSE b

RECURSIVE Newton(_, _)
Newton(n, x) ==
  LET y == (x + n \div x) \div 2
  IN IF y >= x THEN x ELSE Newton(n, y)

\* floor(sqrt(n)), n >= 0
Isqrt(n) == IF n < 2 THEN n ELSE Newton(n, Min(n, 46341))

\* round(num/den) to the nearest integer, ties to the even one (den > 0)
RoundHalfEven(num, den) ==
  LET q == num \div den
      r == num % den
  IN IF 2 * r < den THEN q
     ELSE IF 2 * r > den THEN q + 1
     ELSE IF q % 2 = 0 THEN q ELSE q + 1

\* sin(2*pi*j/Turn) * FX for the first quarter turn
SinQuarter == <<0, 131, 259, 383, 500, 609, 707, 793, 866, 924, 966, 991, 1000>>

\* sin(2*pi*j/Turn) * FX, any j in 0..Turn
SinTab(j) ==
  LET k == j % Turn
      h == Turn \div 2
      q == Turn \div 4
  IN IF k <= q THEN SinQuarter[k + 1]
     ELSE IF k <= h THEN SinQuarter[h - k + 1]
     ELSE IF k <= h + q THEN -SinQuarter[k - h + 1]
     ELSE -SinQuarter[Turn - k + 1]

\* sin(2*pi*p/q) * FX, q > 0: the table, linearly interpolated
Sin(p, q) ==
  LET a == (p % q) * Turn
      j == a \div q
      r == a % q
  IN SinTab(j) + ((SinTab(j + 1) - SinTab(j)) * r) \div q

\* cos(2*pi*p/q) * FX
Cos(p, q) == Sin(4 * p + q, 4 * q)

Num(x) == [nan |-> FALSE, v |-> x]

NaN == [nan |-> TRUE, v |-> 0]

\* IEEE comparison: false as soon as one side is NaN
FGe(a, b) == ~a.nan /\ ~b.nan /\ a.v >= b.v

FLt(a, b) == ~a.nan /\ ~b.nan /\ a.v < b.v

FAdd(a, b) == IF a.nan \/ b.nan THEN NaN ELSE Num(a.v + b.v)

RECURSIVE SumSeq(_)
SumSeq(xs) == IF xs = <<>> THEN 0 ELSE Head(xs) + SumSeq(Tail(xs))

BitStrings(n) == UNION {[1..m -> {"0", "1"}] : m \in 0..n}


\* ------------------------------------------------------------------------
\* State
\* ------------------------------------------------------------------------
VARIABLES
  TRANSMITTED_BITS,  \* receiver configuration: the bit string that was sent
  BIT_DURATION,      \* milliseconds per bit (both programs)
  FREQ_0,            \* Hz, carrier of '0' (both programs)
  FREQ_1,            \* Hz, carrier of '1' (both programs)
  FREQ_TOL,          \* Hz, half width of the receiver's search band
  fps,               \* frames per second of the recording
  pc,                \* position of the receiver script
  err,               \* exception that ended the receiver, "" if none
  intensities,       \* mean ROI intensity of every frame read so far
  signal,            \* normalised signal
  i,                 \* index of the per-bit loop
  start,             \* first sample of the current window
  end,               \* one past the last sample of the current window
  spectrum,          \* magnitude spectrum of the current window
  energy0,           \* band energy around FREQ_0 of the current window
  energy1,           \* band energy around FREQ_1 of the current window
  received_bits,     \* decoded bits so far
  warned,            \* the trimming warning was written
  received_bits_str, \* the decoded string as written to the output
  report,            \* <<>> or <<the score written to the output>>
  BIT_STRING,        \* transmitter configuration: the bit string to send
  BASE_ALPHA,        \* DC level, 1/FX
  DELTA_ALPHA,       \* modulation amplitude, 1/FX
  tx_pc,             \* position of the transmitter's main()
  running,           \* the transmit loop's flag
  t,                 \* elapsed milliseconds read in the last iteration
  bit_index,         \* result of get_current_bit in the last iteration
  bit_value,
  alpha_norm,        \* level computed for the last frame drawn, 1/FX
  alpha_255,         \* alpha handed to the overlay for the last frame drawn
  flips              \* parity of the number of pygame.display.flip() calls

cfgVars == <<TRANSMITTED_BITS, BIT_DURATION, FREQ_0, FREQ_1, FREQ_TOL, fps,
             BIT_STRING, BASE_ALPHA, DELTA_ALPHA>>

txVars == <<tx_pc, running, t, bit_index, bit_value, alpha_norm, alpha_255, flips>>

rxVars == <<pc, err, intensities, signal, i, start, end, spectrum, energy0,
            energy1, received_bits, warned, received_bits_str, report>>

vars == <<cfgVars, rxVars, txVars>>

\* ------------------------------------------------------------------------
\* Receiver: pure computations
\* ------------------------------------------------------------------------
N == Len(intensities)

num_bits == Len(TRANSMITTED_BITS)

samples_per_bit == RoundHalfEven(BIT_DURATION * fps, 1000)

\* np.mean
Mean(xs) == SumSeq(xs) \div Len(xs)

\* largest resolution under which the square root below stays in range
StdScale(sumsq) ==
  IF sumsq < 200000 THEN 100 ELSE IF sumsq < 20000000 THEN 10 ELSE 1

\* np.std (population standard deviation), in 1/StdScale units
Std(xs) ==
  LET m == Mean(xs)
      sumsq == SumSeq([k \in 1..Len(xs) |-> (xs[k] - m) * (xs[k] - m)])
      R == StdScale(sumsq)
  IN [scale |-> R, v |-> Isqrt((sumsq * R * R) \div Len(xs))]

\* x / d in floating point: 0/0 is NaN.  A zero divisor with a non-zero
\* dividend does not occur for d = Std(...) of the centred samples.
FDiv(x, d) ==
  IF d.v = 0 THEN NaN ELSE Num((x * FX * d.scale) \div d.v)

\* signal = intensities - mean; signal = signal / std(signal)
Normalize(xs) ==
  LET m == Mean(xs)
      centred == [k \in 1..Len(xs) |-> xs[k] - m]
      sd == Std(centred)
  IN [k \in 1..Len(xs) |-> FDiv(centred[k], sd)]

\* scipy get_window("hann", L, fftbins=True)[n]
Hann(n, L) == IF L <= 1 THEN FX ELSE (FX - Cos(n, L)) \div 2

\* Segment with every window but the first starting one sample early
SegmentOverlap(sig, st, en, L) ==
  [n \in 1..(Min(en, Len(sig)) - st) |->
     LET x == sig[st + n - (IF st > 0 THEN 1 ELSE 0)]
     IN IF x.nan THEN NaN ELSE Num((x.v * Hann(n - 1, L)) \div FX)]

\* signal[start:end] * window
Segment(sig, st, en, L) ==
  [n \in 1..(Min(en, Len(sig)) - st) |->
     IF sig[st + n].nan THEN NaN ELSE Num((sig[st + n].v * Hann(n - 1, L)) \div FX)]

HasNaN(seg) == \E n \in 1..Len(seg) : seg[n].nan

\* magnitude of bin k of the real FFT of seg
Magnitude(seg, k) ==
  LET L == Len(seg)
      re == SumSeq([n \in 1..L |-> seg[n].v * Cos(k * (n - 1), L)]) \div FX
      im == (0 - SumSeq([n \in 1..L |-> seg[n].v * Sin(k * (n - 1), L)])) \div FX
  IN Isqrt(re * re + im * im)

\* np.abs(rfft(segment)): bins 0..L/2, stored at positions 1..L/2+1
Rfft(seg) ==
  [b \in 1..(Len(seg) \div 2 + 1) |->
     IF HasNaN(seg) THEN NaN ELSE Num(Magnitude(seg, b - 1))]

\* InBand with the upper edge left out
InBandOpen(k, L, f, tol) == (f - tol) * L <= k * fps /\ k * fps < (f + tol) * L

\* rfftfreq(L, 1/fps)[k] = k*fps/L lies in [f - tol, f + tol]
InBand(k, L, f, tol) == (f - tol) * L <= k * fps /\ k * fps <= (f + tol) * L

\* np.where(...)[0]: the bins of the band
BandIdx(L, f, tol) == {k \in 0..(L \div 2) : InBand(k, L, f, tol)}

RECURSIVE FSum(_, _)
\* spectrum[idx].sum()
FSum(spec, idx) ==
  IF idx = {} THEN Num(0)
  ELSE LET k == CHOOSE x \in idx : \A y \in idx : x <= y
       IN FAdd(spec[k + 1], FSum(spec, idx \ {k}))

\* bit_hat = '0' if energy0 >= energy1 else '1'
BitHat(e0, e1) == IF FGe(e0, e1) THEN "0" ELSE "1"

RECURSIVE CorrectSkipFirst(_, _, _)
\* Correct with position 0 left out of the comparison
CorrectSkipFirst(T, D, n) ==
  IF n <= 1 THEN 0
  ELSE CorrectSkipFirst(T, D, n - 1) + (IF T[n] = D[n] THEN 1 ELSE 0)

\* Step 3: the number of agreeing positions among the first n
RECURSIVE Correct(_, _, _)
Correct(T, D, n) ==
  IF n = 0 THEN 0
  ELSE Correct(T, D, n - 1) + (IF T[n] = D[n] THEN 1 ELSE 0)

\* the score written at the end: ber in 1/FX, data_rate in 1/FX bits per second
Score(T, D, bit_ms) ==
  LET min_len == Min(Len(T), Len(D))
      correct == Correct(T, D, min_len)
      total_bits == min_len
  IN [correct |-> correct,
      total_bits |-> total_bits,
      ber |-> FX - (correct * FX) \div total_bits,
      data_rate |-> (correct * FX * 1000) \div (total_bits * bit_ms)]


\* ------------------------------------------------------------------------
\* Transmitter: pure computations.  A time is a fraction tn/td of a second.
\* ------------------------------------------------------------------------
None == [index |-> -1, value |-> "None"]

\* get_current_bit with <= for <: one more frame after the last bit
get_current_bit_le(tn, td, bit_duration, bit_string) ==
  LET idx == (1000 * tn) \div (td * bit_duration)
  IN IF idx <= Len(bit_string)
     THEN [index |-> idx,
           value |-> IF idx < Len(bit_string) THEN bit_string[idx + 1] ELSE "0"]
     ELSE [index |-> -1, value |-> "None"]

\* get_current_bit(t, bit_duration, bit_string), t = tn/td s, bit_duration in ms
get_current_bit(tn, td, bit_duration, bit_string) ==
  LET idx == (1000 * tn) \div (td * bit_duration)
  IN IF idx < Len(bit_string)
     THEN [index |-> idx, value |-> bit_string[idx + 1]]
     ELSE None

\* t_local = t - bit_index * BIT_DURATION, as the fraction n/d of a second
TLocal(tn, td, idx, bit_duration) ==
  [n |-> 1000 * tn - idx * bit_duration * td, d |-> 1000 * td]

\* compute_alpha without the clamp
compute_alpha_unclamped(tl, bv) ==
  LET freq == IF bv = "0" THEN FREQ_0 ELSE FREQ_1
  IN BASE_ALPHA + (DELTA_ALPHA * Sin(freq * tl.n, tl.d)) \div FX

\* compute_alpha comparing bit_value with the number 0: always the else branch
compute_alpha_one_carrier(tl, bv) ==
  LET alpha == BASE_ALPHA + (DELTA_ALPHA * Sin(FREQ_1 * tl.n, tl.d)) \div FX
  IN Max(0, Min(FX, alpha))

\* compute_alpha(t_local, bit_value), t_local = tl.n/tl.d s
compute_alpha(tl, bv) ==
  LET freq == IF bv = "0" THEN FREQ_0 ELSE FREQ_1
      alpha == BASE_ALPHA + (DELTA_ALPHA * Sin(freq * tl.n, tl.d)) \div FX
  IN Max(0, Min(FX, alpha))

\* int(alpha_norm * 255)
Alpha255(a) == (a * 255) \div FX

\* ------------------------------------------------------------------------
\* Receiver: the script, step by step
\* ------------------------------------------------------------------------
RxIdle ==
  /\ signal = <<>> /\ i = 0 /\ start = 0 /\ end = 0 /\ spectrum = <<>>
  /\ energy0 = Num(0) /\ energy1 = Num(0) /\ received_bits = <<>>
  /\ warned = FALSE /\ received_bits_str = <<>> /\ report = <<>> /\ err = ""

TxIdle ==
  /\ running = FALSE /\ t = 0 /\ bit_index = -1 /\ bit_value = "None"
  /\ alpha_norm = 0 /\ alpha_255 = 0 /\ flips = 0

\* lines 37-39: the video cannot be opened
OpenFail ==
  /\ pc = "open"
  /\ pc' = "error"
  /\ err' = "RuntimeError"
  /\ UNCHANGED <<cfgVars, txVars, intensities, signal, i, start, end, spectrum,
                 energy0, energy1, received_bits, warned, received_bits_str, report>>

\* lines 37-47: the video opens
OpenOk ==
  /\ pc = "open"
  /\ pc' = "read"
  /\ UNCHANGED <<cfgVars, txVars, err, intensities, signal, i, start, end, spectrum,
                 energy0, energy1, received_bits, warned, received_bits_str, report>>

\* mean ROI intensities a frame can have, 1/FX
Levels == {0, FX}

\* lines 49-66: one more frame, its mean ROI intensity appended
ReadFrame ==
  /\ pc = "read"
  /\ Len(intensities) < MaxFrames
  /\ \E v \in Levels : intensities' = Append(intensities, v)
  /\ UNCHANGED <<cfgVars, txVars, pc, err, signal, i, start, end, spectrum,
                 energy0, energy1, received_bits, warned, received_bits_str, report>>

\* lines 50-52, 68-75 with no frame at all: t[-1] of an empty array
EndOfVideoEmpty ==
  /\ pc = "read"
  /\ N = 0
  /\ pc' = "error"
  /\ err' = "IndexError"
  /\ UNCHANGED <<cfgVars, txVars, intensities, signal, i, start, end, spectrum,
                 energy0, energy1, received_bits, warned, received_bits_str, report>>

\* lines 50-52, 68-75: the end of the video, the signal's length and duration
EndOfVideo ==
  /\ pc = "read"
  /\ N > 0
  /\ pc' = "normalize"
  /\ UNCHANGED <<cfgVars, txVars, err, intensities, signal, i, start, end, spectrum,
                 energy0, energy1, received_bits, warned, received_bits_str, report>>

\* lines 77-93: remove DC, normalise, set up the loop
NormalizeStep ==
  /\ pc = "normalize"
  /\ signal' = Normalize(intensities)
  /\ i' = 0
  /\ received_bits' = <<>>
  /\ pc' = "loop"
  /\ UNCHANGED <<cfgVars, txVars, err, intensities, start, end, spectrum,
                 energy0, energy1, warned, received_bits_str, report>>

\* lines 95-100: the window does not fit, warn and leave the loop
Trim ==
  /\ pc = "loop"
  /\ i < num_bits
  /\ i * samples_per_bit + samples_per_bit > N
  /\ start' = i * samples_per_bit
  /\ end' = start' + samples_per_bit
  /\ warned' = TRUE
  /\ pc' = "join"
  /\ UNCHANGED <<cfgVars, txVars, err, intensities, signal, i, spectrum,
                 energy0, energy1, received_bits, received_bits_str, report>>

\* lines 95-116: classify one window
ClassifyBit ==
  /\ pc = "loop"
  /\ i < num_bits
  /\ i * samples_per_bit + samples_per_bit <= N
  /\ start' = i * samples_per_bit
  /\ end' = start' + samples_per_bit
  /\ LET segment == Segment(signal, start', end', samples_per_bit)
         idx0 == BandIdx(Len(segment), FREQ_0, FREQ_TOL)
         idx1 == BandIdx(Len(segment), FREQ_1, FREQ_TOL)
     IN /\ spectrum' = Rfft(segment)
        /\ energy0' = FSum(spectrum', idx0)
        /\ energy1' = FSum(spectrum', idx1)
  /\ received_bits' = Append(received_bits, BitHat(energy0', energy1'))
  /\ i' = i + 1
  /\ UNCHANGED <<cfgVars, txVars, pc, err, intensities, signal, warned,
                 received_bits_str, report>>

\* line 95: range(num_bits) is exhausted
LoopExit ==
  /\ pc = "loop"
  /\ i >= num_bits
  /\ pc' = "join"
  /\ UNCHANGED <<cfgVars, txVars, err, intensities, signal, i, start, end, spectrum,
                 energy0, energy1, received_bits, warned, received_bits_str, report>>

\* lines 118-120: the decoded string is written out
Join ==
  /\ pc = "join"
  /\ received_bits_str' = received_bits
  /\ pc' = "score"
  /\ UNCHANGED <<cfgVars, txVars, err, intensities, signal, i, start, end, spectrum,
                 energy0, energy1, received_bits, warned, report>>

\* ScoreEmpty guarding the division: a score of zero is written
ScoreEmptyAsZero ==
  /\ pc = "score"
  /\ Min(Len(TRANSMITTED_BITS), Len(received_bits_str)) = 0
  /\ report' = <<[correct |-> 0, total_bits |-> 0, ber |-> 0, data_rate |-> 0]>>
  /\ pc' = "done"
  /\ UNCHANGED <<cfgVars, txVars, err, intensities, signal, i, start, end, spectrum,
                 energy0, energy1, received_bits, warned, received_bits_str>>

\* lines 126-133 with nothing to compare: correct / total_bits divides by zero
ScoreEmpty ==
  /\ pc = "score"
  /\ Min(Len(TRANSMITTED_BITS), Len(received_bits_str)) = 0
  /\ pc' = "error"
  /\ err' = "ZeroDivisionError"
  /\ UNCHANGED <<cfgVars, txVars, intensities, signal, i, start, end, spectrum,
                 energy0, energy1, received_bits, warned, received_bits_str, report>>

\* lines 126-141: the score is computed and written out
ScoreStep ==
  /\ pc = "score"
  /\ Min(Len(TRANSMITTED_BITS), Len(received_bits_str)) > 0
  /\ report' = <<Score(TRANSMITTED_BITS, received_bits_str, BIT_DURATION)>>
  /\ pc' = "done"
  /\ UNCHANGED <<cfgVars, txVars, err, intensities, signal, i, start, end, spectrum,
                 energy0, energy1, received_bits, warned, received_bits_str>>

\* line 18: the bit string of the experiment
SourceBits ==
  <<"1", "0", "1", "1", "0", "0", "1", "1", "1", "0", "0", "0", "1", "1", "1", "1">>

\* fps, BIT_DURATION, FREQ_0, FREQ_1, FREQ_TOL
Recordings ==
  { <<4, 250, 1, 2, 1>>,
    <<5, 500, 1, 2, 1>>,
    <<6, 500, 1, 2, 0>>,
    <<4, 1000, 1, 2, 0>>,
    <<4, 1000, 1, 2, 1>>,
    <<4, 1000, 5, 10, 1>> }

Init ==
  /\ TRANSMITTED_BITS \in {SubSeq(SourceBits, 1, n) : n \in 0..MaxBits}
  /\ \E r \in Recordings :
       /\ fps = r[1] /\ BIT_DURATION = r[2]
       /\ FREQ_0 = r[3] /\ FREQ_1 = r[4] /\ FREQ_TOL = r[5]
  /\ BIT_STRING = <<>> /\ BASE_ALPHA = 500 /\ DELTA_ALPHA = 100
  /\ pc = "open"
  /\ intensities = <<>>
  /\ RxIdle
  /\ tx_pc = "off"
  /\ TxIdle

Next ==
  \/ OpenFail
  \/ OpenOk
  \/ ReadFrame
  \/ EndOfVideoEmpty
  \/ EndOfVideo
  \/ NormalizeStep
  \/ Trim
  \/ ClassifyBit
  \/ LoopExit
  \/ Join
  \/ ScoreEmpty
  \/ ScoreStep

Spec == Init /\ [][Next]_vars


\* ------------------------------------------------------------------------
\* Transmitter: main()
\* ------------------------------------------------------------------------
MaxStep == 18

\* clock.tick(60): at least 1000/60 ms pass between two iterations
MinStep == 16

\* milliseconds between start_time and the time read by this iteration
Steps == IF tx_pc = "start" THEN {0} ELSE MinStep..MaxStep

\* lines 97-112: an iteration that finds every bit sent
TxFinish(quit, d) ==
  /\ tx_pc \in {"start", "loop"}
  /\ running
  /\ tx_pc' = "loop"
  /\ t' = t + d
  /\ get_current_bit(t', 1000, BIT_DURATION, BIT_STRING) = None
  /\ bit_index' = None.index
  /\ bit_value' = None.value
  /\ running' = FALSE
  /\ UNCHANGED <<cfgVars, rxVars, alpha_norm, alpha_255, flips>>

\* lines 97-107, 113-134: an iteration that draws a frame
TxDraw(quit, d) ==
  /\ tx_pc \in {"start", "loop"}
  /\ running
  /\ tx_pc' = "loop"
  /\ t' = t + d
  /\ LET cb == get_current_bit(t', 1000, BIT_DURATION, BIT_STRING)
     IN /\ cb # None
        /\ bit_index' = cb.index
        /\ bit_value' = cb.value
        /\ alpha_norm' = compute_alpha(TLocal(t', 1000, cb.index, BIT_DURATION), cb.value)
  /\ alpha_255' = Alpha255(alpha_norm')
  /\ flips' = 1 - flips
  /\ running' = ~quit
  /\ UNCHANGED <<cfgVars, rxVars>>

\* lines 136-137: pygame.quit(); sys.exit()
TxExit ==
  /\ tx_pc = "loop"
  /\ ~running
  /\ tx_pc' = "exited"
  /\ UNCHANGED <<cfgVars, rxVars, running, t, bit_index, bit_value, alpha_norm,
                 alpha_255, flips>>

\* BIT_DURATION (ms), BASE_ALPHA and DELTA_ALPHA (1/FX)
TxSetups == {<<200, 500, 100>>, <<100, 500, 500>>, <<100, 900, 500>>, <<100, 100, 500>>}

InitTx ==
  /\ BIT_STRING \in BitStrings(MaxBits)
  /\ \E l \in TxSetups : BIT_DURATION = l[1] /\ BASE_ALPHA = l[2] /\ DELTA_ALPHA = l[3]
  /\ FREQ_0 = 5 /\ FREQ_1 = 10
  /\ TRANSMITTED_BITS = <<>> /\ FREQ_TOL = 0 /\ fps = 0
  /\ pc = "off"
  /\ intensities = <<>>
  /\ RxIdle
  /\ tx_pc = "start"
  /\ running = TRUE
  /\ t = 0 /\ bit_index = -1 /\ bit_value = "None"
  /\ alpha_norm = 0 /\ alpha_255 = 0 /\ flips = 0

NextTx ==
  \/ \E quit \in BOOLEAN, d \in Steps : TxFinish(quit, d)
  \/ \E quit \in BOOLEAN, d \in Steps : TxDraw(quit, d)
  \/ TxExit

SpecTx == InitTx /\ [][NextTx]_vars

\* every iteration ends (clock.tick returns) and the script goes on to exit
FairSpecTx == SpecTx /\ WF_vars(NextTx)

\* ------------------------------------------------------------------------
\* The link without noise: the recording is the modulator's output, one
\* sample per frame, frame n taken n/fps seconds after the start
\* ------------------------------------------------------------------------
MaxLinkBits == 2

\* lines 49-66 on a noiseless recording of the transmitter's screen
RecordFrame ==
  /\ pc = "read"
  /\ LET cb == get_current_bit(N, fps, BIT_DURATION, BIT_STRING)
     IN /\ cb # None
        /\ intensities' = Append(intensities,
             compute_alpha(TLocal(N, fps, cb.index, BIT_DURATION), cb.value))
  /\ UNCHANGED <<cfgVars, txVars, pc, err, signal, i, start, end, spectrum,
                 energy0, energy1, received_bits, warned, received_bits_str, report>>

\* fps, BIT_DURATION, FREQ_0, FREQ_1, FREQ_TOL, BASE_ALPHA, DELTA_ALPHA
Links ==
  { <<40, 400, 5, 10, 1, 500, 100>>,
    <<30, 400, 5, 10, 1, 500, 100>>,
    <<40, 200, 5, 10, 1, 500, 500>>,
    <<80, 200, 5, 20, 7, 300, 100>>,
    <<40, 50, 5, 10, 1, 500, 100>>,
    <<40, 400, 5, 10, 1, 500, 0>> }

InitLink ==
  /\ BIT_STRING \in BitStrings(MaxLinkBits)
  /\ TRANSMITTED_BITS = BIT_STRING
  /\ \E l \in Links :
       /\ fps = l[1] /\ BIT_DURATION = l[2]
       /\ FREQ_0 = l[3] /\ FREQ_1 = l[4] /\ FREQ_TOL = l[5]
       /\ BASE_ALPHA = l[6] /\ DELTA_ALPHA = l[7]
  /\ pc = "open"
  /\ intensities = <<>>
  /\ RxIdle
  /\ tx_pc = "off"
  /\ TxIdle

NextLink ==
  \/ OpenFail
  \/ OpenOk
  \/ RecordFrame
  \/ EndOfVideoEmpty
  \/ EndOfVideo
  \/ NormalizeStep
  \/ Trim
  \/ ClassifyBit
  \/ LoopExit
  \/ Join
  \/ ScoreEmpty
  \/ ScoreStep

SpecLink == InitLink /\ [][NextLink]_vars

\* ------------------------------------------------------------------------
\* Step 3 alone, on any pair of bit strings
\* ------------------------------------------------------------------------
MaxScoreBits == 3

\* the example of the specification: 16 bits, the last one flipped
Flipped(bits) ==
  [k \in 1..Len(bits) |->
     IF k < Len(bits) THEN bits[k] ELSE IF bits[k] = "0" THEN "1" ELSE "0"]

InitScore ==
  /\ \/ /\ TRANSMITTED_BITS \in BitStrings(MaxScoreBits)
        /\ received_bits_str \in BitStrings(MaxScoreBits)
     \/ /\ TRANSMITTED_BITS = SourceBits
        /\ received_bits_str \in {SourceBits, Flipped(SourceBits)}
  /\ BIT_DURATION \in {400, 250}
  /\ FREQ_0 = 5 /\ FREQ_1 = 10 /\ FREQ_TOL = 1 /\ fps = 30
  /\ BIT_STRING = <<>> /\ BASE_ALPHA = 500 /\ DELTA_ALPHA = 100
  /\ pc = "score"
  /\ intensities = <<>>
  /\ signal = <<>> /\ i = 0 /\ start = 0 /\ end = 0 /\ spectrum = <<>>
  /\ energy0 = Num(0) /\ energy1 = Num(0) /\ received_bits = received_bits_str
  /\ warned = FALSE /\ report = <<>> /\ err = ""
  /\ tx_pc = "off"
  /\ TxIdle

NextScore ==
  \/ ScoreEmpty
  \/ ScoreStep

SpecScore == InitScore /\ [][NextScore]_vars


\* ------------------------------------------------------------------------
\* Properties of the receiver (Spec)
\* ------------------------------------------------------------------------
\* the loop over the bits has been left, or the script died on the way to it
AfterLoop == pc \in {"join", "score", "done"} \/ (pc = "error" /\ err # "RuntimeError")

\* the script went from the loop on to Step 3
ReachedScoring ==
  pc \in {"join", "score", "done"} \/ (pc = "error" /\ err = "ZeroDivisionError")

Constant(xs) == \A a, b \in 1..Len(xs) : xs[a] = xs[b]

\* the decision of lines 102-115 on the samples w of one window, and on nothing else
DecodeWindow(w) ==
  LET seg == Segment(w, 0, Len(w), Len(w))
      sp == Rfft(seg)
  IN BitHat(FSum(sp, BandIdx(Len(seg), FREQ_0, FREQ_TOL)),
            FSum(sp, BandIdx(Len(seg), FREQ_1, FREQ_TOL)))

RECURSIVE SumOver(_, _)
SumOver(spec, S) ==
  IF S = {} THEN 0
  ELSE LET k == CHOOSE x \in S : TRUE
       IN spec[k + 1].v + SumOver(spec, S \ {k})

\* the sum of the magnitudes of the bins S; NaN as soon as one of them is NaN
BandSum(spec, S) ==
  IF \E k \in S : spec[k + 1].nan THEN NaN ELSE Num(SumOver(spec, S))

\* the bins k of a window of L samples with f - tol <= k*fps/L <= f + tol
Band(L, f, tol) ==
  {k \in 0..(L \div 2) : ~(k * fps < (f - tol) * L) /\ ~(k * fps > (f + tol) * L)}

BandsOverlap == 2 * FREQ_TOL >= Abs(FREQ_1 - FREQ_0)

\* C1: a stream of M samples with k*s <= M < (k+1)*s and k < N bits expected
\* gives exactly k decoded bits, the trimming warning, and the script goes on
\* to the scoring step.
C1_Truncation ==
  (AfterLoop /\ samples_per_bit >= 1 /\ N \div samples_per_bit < num_bits)
    => /\ Len(received_bits) = N \div samples_per_bit
       /\ warned
       /\ ReachedScoring

\* C2: a recording whose samples are all equal ends in a DegenerateSignal error
\* at normalisation; it is never segmented, classified or scored.
C2_DegenerateSignal ==
  (N > 0 /\ Constant(intensities) /\ pc \notin {"open", "read", "normalize"})
    => /\ pc = "error"
       /\ err = "DegenerateSignal"
       /\ received_bits = <<>>
       /\ report = <<>>

\* C5: when Step 3 finds nothing to compare, the script ends in an error with
\* no score written, after the (empty) decoded string was written out.
C5_EmptyComparison ==
  (ReachedScoring /\ pc \in {"done", "error"}
     /\ Min(Len(TRANSMITTED_BITS), Len(received_bits_str)) = 0)
    => /\ pc = "error"
       /\ err = "ZeroDivisionError"
       /\ report = <<>>
       /\ received_bits_str = received_bits
       /\ received_bits_str = <<>>

\* C5 witness: a stream shorter than one window, bits expected
C5_Witness ==
  /\ pc = "error"
  /\ err = "ZeroDivisionError"
  /\ num_bits > 0
  /\ N > 0
  /\ N < samples_per_bit

\* C6: the last decision is '0' exactly when energy0 >= energy1 and '1' exactly
\* when energy0 < energy1; equal energies give '0'.
C6_TieBreak ==
  Len(received_bits) > 0 =>
    LET b == received_bits[Len(received_bits)]
    IN /\ (b = "0") <=> FGe(energy0, energy1)
       /\ (b = "1") <=> FLt(energy0, energy1)
       /\ (~energy0.nan /\ ~energy1.nan /\ energy0.v = energy1.v) => b = "0"

\* C9: in every state at most num_bits and at most floor(M/s) bits are decoded;
\* they are the decisions on windows 0, 1, ... in this order, bit j being the
\* decision on the samples [j*s, (j+1)*s) alone; the window just classified
\* lies inside the signal.
C9_WindowLayout ==
  LET s == samples_per_bit
      n == Len(received_bits)
  IN /\ n <= num_bits
     /\ n * s <= N
     /\ pc = "loop" => n = i
     /\ \A j \in 1..n :
          received_bits[j] = DecodeWindow(SubSeq(signal, (j - 1) * s + 1, j * s))
     /\ (n > 0 /\ ~warned) => (start = (n - 1) * s /\ end = n * s /\ end <= N)

\* C9 witness: two windows decoded, the second differently from the first
C9_Witness ==
  /\ pc = "done"
  /\ Len(received_bits) = 2
  /\ received_bits[1] # received_bits[2]
  /\ samples_per_bit > 1

\* C10: energy0 and energy1 are the sums of the magnitudes of exactly the bins
\* within FREQ_TOL of FREQ_0 and of FREQ_1, edges included; overlapping bands
\* are decoded like any other.
C10_BandSelection ==
  /\ Len(received_bits) > 0 =>
       /\ energy0 = BandSum(spectrum, Band(samples_per_bit, FREQ_0, FREQ_TOL))
       /\ energy1 = BandSum(spectrum, Band(samples_per_bit, FREQ_1, FREQ_TOL))
  /\ (BandsOverlap /\ ReachedScoring) =>
       Len(received_bits) = Min(num_bits, N \div samples_per_bit)

\* C10 witness: a bin with energy on the upper edge of band 0, inside band 1 too
C10_Witness ==
  /\ Len(received_bits) > 0
  /\ BandsOverlap
  /\ \E k \in Band(samples_per_bit, FREQ_0, FREQ_TOL) \cap Band(samples_per_bit, FREQ_1, FREQ_TOL) :
       /\ k * fps = (FREQ_0 + FREQ_TOL) * samples_per_bit
       /\ ~spectrum[k + 1].nan
       /\ spectrum[k + 1].v > 0
       /\ energy1.v > 0


\* ------------------------------------------------------------------------
\* Properties of Step 3 (SpecScore)
\* ------------------------------------------------------------------------
\* C4: with k = min(len(T), len(D)) > 0 the score counts the agreeing positions
\* among 0..k-1 and nothing else, ber = 1 - correct/k and data_rate =
\* correct/(k*BIT_DURATION), both to the last fixed-point digit; sixteen bits
\* with the last one flipped score 15 out of 16.
C4_Scoring ==
  pc = "done" =>
    LET T == TRANSMITTED_BITS
        D == received_bits_str
        k == IF Len(T) <= Len(D) THEN Len(T) ELSE Len(D)
        c == Cardinality({j \in 1..k : T[j] = D[j]})
        r == report[1]
    IN /\ Len(report) = 1
       /\ k > 0
       /\ r.total_bits = k
       /\ r.correct = c
       /\ 0 <= r.correct /\ r.correct <= k
       /\ FX * (k - c) <= r.ber * k /\ r.ber * k < FX * (k - c) + k
       /\ r.data_rate * k * BIT_DURATION <= c * FX * 1000
       /\ c * FX * 1000 < (r.data_rate + 1) * k * BIT_DURATION
       /\ (T = SourceBits /\ D = Flipped(SourceBits)) =>
            (r.total_bits = 16 /\ r.correct = 15 /\ r.total_bits - r.correct = 1)

\* C4 witness: the sixteen-bit example has been scored
C4_Witness ==
  /\ pc = "done"
  /\ TRANSMITTED_BITS = SourceBits
  /\ received_bits_str = Flipped(SourceBits)
  /\ report[1].correct = 15
  /\ BIT_DURATION = 400

\* ------------------------------------------------------------------------
\* Properties of the transmitter (SpecTx, FairSpecTx)
\* ------------------------------------------------------------------------
\* floor(elapsed / bit_duration) for the elapsed time e, in ms
Slot(e) == e \div BIT_DURATION

\* C3: a frame is drawn only in an iteration whose elapsed time t' has
\* floor(t'/BIT_DURATION) < len(BIT_STRING); the first iteration that reads a
\* later time stops the loop without drawing; nothing is drawn once the loop
\* has stopped; and the loop does stop.
C3_Termination ==
  /\ [][flips' # flips => (running /\ Slot(t') < Len(BIT_STRING))]_vars
  /\ [][(running /\ t' # t /\ Slot(t') >= Len(BIT_STRING))
          => (~running' /\ flips' = flips)]_vars
  /\ [][~running => (~running' /\ flips' = flips)]_vars
  /\ <>(~running)

\* C3 witness: both bits were sent, the loop ended by itself and the script exited
C3_Witness ==
  /\ tx_pc = "exited"
  /\ Len(BIT_STRING) = 2
  /\ bit_index = -1
  /\ Slot(t) >= Len(BIT_STRING)
  /\ flips = 1

\* C7: the level of the last frame drawn is BASE_ALPHA + DELTA_ALPHA *
\* sin(2 pi f t_local) clamped to [0, 1], with f = FREQ_0 for '0' and FREQ_1 for
\* '1', and the alpha handed to the overlay is int(level * 255), within 0..255.
C7_ModulatorRange ==
  /\ 0 <= alpha_norm /\ alpha_norm <= FX
  /\ alpha_255 \in 0..255
  /\ alpha_255 * FX <= 255 * alpha_norm
  /\ 255 * alpha_norm < (alpha_255 + 1) * FX
  /\ bit_index >= 0 =>
       LET t_local == t - bit_index * BIT_DURATION
           carrier == CASE bit_value = "0" -> FREQ_0
                        [] bit_value = "1" -> FREQ_1
           level == BASE_ALPHA + (DELTA_ALPHA * Sin(carrier * t_local, 1000)) \div FX
       IN /\ bit_value = BIT_STRING[bit_index + 1]
          /\ 0 <= t_local /\ t_local < BIT_DURATION
          /\ alpha_norm = (IF level < 0 THEN 0 ELSE IF level > FX THEN FX ELSE level)

\* C7 witness: a frame of a '1' whose level was cut down to 1
C7_Witness ==
  /\ bit_index >= 0
  /\ bit_value = "1"
  /\ BASE_ALPHA + (DELTA_ALPHA * Sin(FREQ_1 * (t - bit_index * BIT_DURATION), 1000)) \div FX > FX
  /\ alpha_norm = FX
  /\ alpha_255 = 255

\* ------------------------------------------------------------------------
\* Properties of the noiseless link (SpecLink)
\* ------------------------------------------------------------------------
\* valid ModulationParameters
ValidParameters ==
  /\ FREQ_0 > 0 /\ FREQ_1 > 0 /\ FREQ_0 # FREQ_1
  /\ BIT_DURATION > 0
  /\ 0 <= BASE_ALPHA /\ BASE_ALPHA <= FX
  /\ 0 <= DELTA_ALPHA /\ DELTA_ALPHA <= Min(BASE_ALPHA, FX - BASE_ALPHA)

\* the whole transmission was recorded and decoded
WholeRun == pc = "done" /\ N = num_bits * samples_per_bit

\* C8 as stated: any bit string, any valid parameters, fps >= 4*FREQ_1: the
\* decoded string is the transmitted one and the bit error rate is 0.
C8_RoundTrip ==
  (WholeRun /\ ValidParameters /\ fps >= 4 * FREQ_1)
    => (received_bits_str = BIT_STRING /\ report[1].ber = 0)

\* each carrier makes a whole number of cycles per bit, at most a quarter of
\* the samples of a bit, and the two bands are apart
CarriersOnBins ==
  /\ samples_per_bit * 1000 = BIT_DURATION * fps
  /\ (FREQ_0 * samples_per_bit) % fps = 0
  /\ (FREQ_1 * samples_per_bit) % fps = 0
  /\ 4 * FREQ_0 <= fps
  /\ 4 * FREQ_1 <= fps
  /\ 2 * FREQ_TOL < Abs(FREQ_1 - FREQ_0)

\* C8 amended: the round trip is exact when moreover the modulation depth is
\* not zero and both carriers fall on FFT bins of the bit window.
C8_RoundTripOnBins ==
  (WholeRun /\ ValidParameters /\ DELTA_ALPHA > 0 /\ CarriersOnBins)
    => (received_bits_str = BIT_STRING /\ report[1].ber = 0)

\* C8 witness: "10" sent at the source's settings, recorded at 40 fps, decoded
C8_Witness ==
  /\ WholeRun /\ ValidParameters /\ DELTA_ALPHA > 0 /\ CarriersOnBins
  /\ BIT_STRING = <<"1", "0">>
  /\ received_bits_str = BIT_STRING
  /\ fps = 40 /\ BIT_DURATION = 400 /\ FREQ_0 = 5 /\ FREQ_1 = 10

====
